---- MODULE Spec2Model ----
(***************************************************************************)
(* Coverage checker (src/index.js): a CI action that parses clover         *)
(* reports, and either compares them with the baselines kept on the        *)
(* `coverage` branch and posts one comment on the pull request ("check"),  *)
(* or rewrites the baselines, badges and history ledger on that branch     *)
(* ("update").                                                             *)
(*                                                                         *)
(* Numbers.  A coverage percentage is a float with 3 decimals; it is       *)
(* modelled as the integer number of thousandths of a percent (33.333 is   *)
(* 33333), wrapped in a record that also carries the two non-numbers the   *)
(* code can produce: NaN (0/0 in parseCoverage and sumCoverages) and the   *)
(* JSON null that JSON.stringify writes for NaN.  Reports have             *)
(* covered <= total, so Infinity does not occur.  With the totals used     *)
(* here 100000*covered/total is never exactly halfway between two          *)
(* integers, so toFixed(3) is round-to-nearest.                            *)
(***************************************************************************)
EXTENDS Integers, Sequences, FiniteSets, TLC

VARIABLES
    files,          \* COVERAGE_FILES: the configured reports of the runs
    remote,         \* the `coverage` branch on the remote repository
    comments,       \* the comments of the pull request, oldest first
    runs,           \* number of runs started so far
    clock,          \* logical time of (new Date()).toISOString()
    mode,           \* ACTION of the current run: "update" or "check"
    pullRequest,    \* github.context.payload.pull_request is set in this run
    pc,             \* position of the current run
    idx,            \* loop index of the current loop (1-based)
    coverages,      \* reports of parseCoverages: [keys, at]
    workdir,        \* the clone's working directory (update)
    history,        \* in-memory history ledger (update)
    historyStatus,  \* historyFile.status (update), 0 before the fetch
    loaded,         \* the ledger as fetchHistory returned it (update)
    persisted,      \* number of writes of HISTORY_FILENAME in this run
    baseCoverages,  \* baselines fetched so far (check): [keys, at]
    messages,       \* per-comparison messages built so far (check)
    logged,         \* messages handed to postMessageOnPullRequest, oldest first
    steps,          \* the steps this run has completed, oldest first
    failed,         \* core.setFailed has been called in this run
    error,          \* the failure that ended this run ("" when none did)
    call            \* an application of a pure function: [fn, in, out, done]

vars == <<files, remote, comments, runs, clock, mode, pullRequest, pc, idx, coverages,
          workdir, history, historyStatus, loaded, persisted, baseCoverages,
          messages, logged, steps, failed, error, call>>

runVars == <<files, remote, comments, runs, clock, mode, pullRequest, pc, idx, coverages,
             workdir, history, historyStatus, loaded, persisted, baseCoverages,
             messages, logged, steps, failed, error>>

-----------------------------------------------------------------------------
(* Bounds *)

\* Number of runs of the action in one behaviour.
MaxRuns == 2

\* Largest `elements` attribute of a report given to the pure functions.
MaxTotal == 3

\* Largest number of entries of a map given to sumCoverages on its own.
MaxEntries == 3

-----------------------------------------------------------------------------
(* Values *)

\* toFixed(3): thousandths of a percent per percent.
Scale == 1000

Num(v) == [k |-> "num", v |-> v]
NaN == [k |-> "NaN", v |-> 0]
Null == [k |-> "null", v |-> 0]

Range(s) == {s[i] : i \in 1..Len(s)}

NoFiles == [x \in {} |-> 0]

EmptyMap == [keys |-> <<>>, at |-> NoFiles]

\* A file written into a directory, or a property set on an object.
Write(f, k, v) == [x \in (DOMAIN f) \cup {k} |-> IF x = k THEN v ELSE f[x]]

\* obj[k] = v on a JavaScript object: a new key goes last in Object.keys
\* order, an existing key keeps its place.
Put(m, k, v) ==
    [keys |-> IF k \in Range(m.keys) THEN m.keys ELSE Append(m.keys, k),
     at   |-> Write(m.at, k, v)]

\* parseFloat((100 * covered / total).toFixed(3))
Percentage(covered, total) ==
    IF total = 0
    THEN NaN
    ELSE Num((2 * 100 * Scale * covered + total) \div (2 * total))

\* ToNumber on a coverage value: null is 0.
ToNumber(c) == IF c.k = "num" THEN c.v ELSE 0

\* a < b in JavaScript: false as soon as one side is NaN.
JsLess(a, b) ==
    IF a.k = "NaN" \/ b.k = "NaN" THEN FALSE ELSE ToNumber(a) < ToNumber(b)

\* JSON.stringify followed by JSON.parse: NaN is written as null.
JsonNumber(c) == IF c.k = "NaN" THEN Null ELSE c

JsonSnapshot(s) ==
    [total |-> s.total, covered |-> s.covered, coverage |-> JsonNumber(s.coverage)]

RECURSIVE JsonEntries(_, _)
JsonEntries(s, i) ==
    IF i > Len(s)
    THEN <<>>
    ELSE <<[time |-> s[i].time, coverage |-> JsonNumber(s[i].coverage)]>>
         \o JsonEntries(s, i + 1)

JsonLedger(h) == [l \in DOMAIN h |-> JsonEntries(h[l], 1)]

-----------------------------------------------------------------------------
(* Pure functions *)

\* The metrics element of a clover report: elements and coveredelements.
\* A clover report never counts more covered elements than elements.
Metrics(maxTotal) ==
    {[elements |-> t, coveredelements |-> c] : t \in 0..maxTotal, c \in 0..maxTotal}

ValidMetrics(maxTotal) ==
    {m \in Metrics(maxTotal) : m.coveredelements <= m.elements}

\* parseCoverage with the percentage cut after 3 decimals instead of rounded.
parseCoverageTruncates(metrics) ==
    [total    |-> metrics.elements,
     covered  |-> metrics.coveredelements,
     coverage |-> IF metrics.elements = 0
                  THEN NaN
                  ELSE Num((100 * Scale * metrics.coveredelements)
                           \div metrics.elements)]

parseCoverage(metrics) ==
    [total    |-> metrics.elements,
     covered  |-> metrics.coveredelements,
     coverage |-> Percentage(metrics.coveredelements, metrics.elements)]

RECURSIVE SumField(_, _, _)
SumField(m, field, i) ==
    IF i > Len(m.keys)
    THEN 0
    ELSE (IF field = "total" THEN m.at[m.keys[i]].total ELSE m.at[m.keys[i]].covered)
         + SumField(m, field, i + 1)

\* sumCoverages with the percentage averaged over the entries.
RECURSIVE SumPercent(_, _)
SumPercent(m, i) ==
    IF i > Len(m.keys)
    THEN 0
    ELSE ToNumber(m.at[m.keys[i]].coverage) + SumPercent(m, i + 1)

sumCoveragesAveraged(m) ==
    [total    |-> SumField(m, "total", 1),
     covered  |-> SumField(m, "covered", 1),
     coverage |-> IF Len(m.keys) = 0 \/ SumField(m, "total", 1) = 0
                  THEN NaN
                  ELSE Num(SumPercent(m, 1) \div Len(m.keys))]

sumCoverages(m) ==
    [total    |-> SumField(m, "total", 1),
     covered  |-> SumField(m, "covered", 1),
     coverage |-> Percentage(SumField(m, "covered", 1), SumField(m, "total", 1))]

colors ==
    << [threshold |-> 50, color |-> "red"],
       [threshold |-> 75, color |-> "orange"],
       [threshold |-> 95, color |-> "yellow"] >>

RECURSIVE BadgeColorFrom(_, _)
BadgeColorFrom(coverage, i) ==
    IF i > Len(colors)
    THEN "green"
    ELSE IF JsLess(coverage, Num(colors[i].threshold * Scale))
         THEN colors[i].color
         ELSE BadgeColorFrom(coverage, i + 1)

\* processBadgeColor with `<=` for `<`: a threshold belongs to the colour
\* below it.
processBadgeColorInclusive(coverage) ==
    IF ~JsLess(Num(colors[1].threshold * Scale), coverage)
    THEN colors[1].color
    ELSE IF ~JsLess(Num(colors[2].threshold * Scale), coverage)
         THEN colors[2].color
         ELSE IF ~JsLess(Num(colors[3].threshold * Scale), coverage)
              THEN colors[3].color
              ELSE "green"

processBadgeColor(coverage) == BadgeColorFrom(coverage, 1)

getBadgeUrl(coverage, label) ==
    [label |-> label, message |-> coverage, color |-> processBadgeColor(coverage)]

\* buildResultMessage with `<=` for `<`: a tie fails.
buildResultMessageTieFails(oldCoverage, newCoverage) ==
    IF ~JsLess(oldCoverage.coverage, newCoverage.coverage)
    THEN [verdict |-> "fail", old |-> oldCoverage, new |-> newCoverage, setFailed |-> TRUE]
    ELSE [verdict |-> "pass", old |-> oldCoverage, new |-> newCoverage, setFailed |-> FALSE]

\* buildResultMessage: the message (its verdict line and its delta table) and
\* whether core.setFailed was called.
buildResultMessage(oldCoverage, newCoverage) ==
    IF JsLess(newCoverage.coverage, oldCoverage.coverage)
    THEN [verdict |-> "fail", old |-> oldCoverage, new |-> newCoverage, setFailed |-> TRUE]
    ELSE [verdict |-> "pass", old |-> oldCoverage, new |-> newCoverage, setFailed |-> FALSE]

-----------------------------------------------------------------------------
(* Configuration and environment *)

HISTORY_FILENAME == "coverage-history.json"

\* REPORT_MESSAGE_HEADER, the dividers of messages.join and the comparison
\* messages are the tokens a comment body is made of.
REPORT_MESSAGE_HEADER == [kind |-> "header"]

Divider == [kind |-> "divider"]

BOT == "github-actions[bot]"

Entry(summary, label, badge) == [summary |-> summary, label |-> label, badge |-> badge]

ConfEntries ==
    {Entry(s, l, b) : s \in {"unit.json", "integration.json"},
                      l \in {"unit", "integration"},
                      b \in BOOLEAN}

\* The configurations explored: one report, or two reports of which the
\* first is the unit report; the second may repeat its summary file or its
\* label.
Configs ==
    {<<e>> : e \in {c \in ConfEntries : c.summary = "unit.json" /\ c.label = "unit"}}
    \cup
    {<<e1, e2>> : e1 \in {c \in ConfEntries : c.summary = "unit.json" /\ c.label = "unit" /\ c.badge},
                  e2 \in ConfEntries}

\* The reports a run can find on disk.
Reports == ValidMetrics(1)

\* octokit.issues.listComments is called once, without per_page or page: it
\* returns the first page of the comments, of the default size.
PerPage == 30

RECURSIVE UserComments(_)
UserComments(n) ==
    IF n = 0
    THEN <<>>
    ELSE Append(UserComments(n - 1),
                [id |-> n, login |-> "octocat", body |-> <<[kind |-> "text"]>>])

\* Comments that are on the pull request before the first run: none; one by
\* a user who quotes the header and one by the bot that is not a report; a
\* full page of comments by a user.
InitialComments ==
    { <<>>,
      <<[id |-> 1, login |-> "octocat", body |-> <<REPORT_MESSAGE_HEADER>>],
        [id |-> 2, login |-> BOT, body |-> <<[kind |-> "text"]>>]>>,
      UserComments(PerPage) }

EmptyDir ==
    [branch |-> FALSE, snapshots |-> NoFiles, badges |-> NoFiles,
     hasHistory |-> FALSE, ledger |-> NoFiles]

\* COVERAGE_FILES.find(e => e.summary === summaryFile)
RECURSIVE FindConf(_, _)
FindConf(summaryFile, i) ==
    IF files[i].summary = summaryFile THEN files[i] ELSE FindConf(summaryFile, i + 1)

\* messages.join('\n---\n')
RECURSIVE Join(_, _)
Join(msgs, i) ==
    IF i > Len(msgs)
    THEN <<>>
    ELSE IF i = Len(msgs)
         THEN <<msgs[i]>>
         ELSE <<msgs[i], Divider>> \o Join(msgs, i + 1)

\* body.startsWith(REPORT_MESSAGE_HEADER)
StartsWithHeader(body) == Len(body) >= 1 /\ body[1] = REPORT_MESSAGE_HEADER

IsManaged(comment) == comment.login = BOT /\ StartsWithHeader(comment.body)

\* retrieveCommentIdFromPullRequest: the id of the first comment of the bot
\* that starts with the header, 0 for null.
RECURSIVE FindComment(_, _)
FindComment(list, i) ==
    IF i > Len(list)
    THEN 0
    ELSE IF IsManaged(list[i]) THEN list[i].id ELSE FindComment(list, i + 1)

listComments(list) ==
    SubSeq(list, 1, IF Len(list) < PerPage THEN Len(list) ELSE PerPage)

retrieveCommentIdFromPullRequest(list) == FindComment(listComments(list), 1)

RECURSIVE UpdateFrom(_, _, _, _)
UpdateFrom(list, commentId, body, i) ==
    IF i > Len(list)
    THEN <<>>
    ELSE <<IF list[i].id = commentId
           THEN [id |-> list[i].id, login |-> list[i].login, body |-> body]
           ELSE list[i]>>
         \o UpdateFrom(list, commentId, body, i + 1)

updateComment(list, commentId, body) == UpdateFrom(list, commentId, body, 1)

createComment(list, body) ==
    Append(list, [id |-> Len(list) + 1, login |-> BOT, body |-> body])

-----------------------------------------------------------------------------
(* The run *)

Init ==
    /\ files \in Configs
    /\ remote = EmptyDir
    /\ comments \in InitialComments
    /\ runs = 0
    /\ clock = 1
    /\ mode = "none"
    /\ pullRequest = FALSE
    /\ pc = "idle"
    /\ idx = 1
    /\ coverages = EmptyMap
    /\ workdir = EmptyDir
    /\ history = NoFiles
    /\ historyStatus = 0
    /\ loaded = NoFiles
    /\ persisted = 0
    /\ baseCoverages = EmptyMap
    /\ messages = <<>>
    /\ logged = <<>>
    /\ steps = <<>>
    /\ failed = FALSE
    /\ error = ""
    /\ call = [fn |-> "none", done |-> FALSE]

\* A completed step of a run, for the report `key` ("" when it is not about
\* one report).
Step(op, key) == [op |-> op, key |-> key]

\* The values COVERAGE_FILES can have in the next run: the workflow keeps its
\* reports, or gains a second one with a summary file and a label of its own.
NextConfigs ==
    {files}
    \cup {c \in Configs : /\ Len(c) = Len(files) + 1
                          /\ c[1] = files[1]
                          /\ c[2].summary # c[1].summary
                          /\ c[2].label # c[1].label}

\* action(): a new process starts with ACTION = m and COVERAGE_FILES = conf.
\* The pull request of the event is read by check() only: it is not varied
\* for an update run.
Start(m, pr, conf) ==
    /\ pc = "idle"
    /\ m = "update" => ~pr
    /\ runs < MaxRuns
    /\ runs' = runs + 1
    /\ mode' = m
    /\ pullRequest' = pr
    /\ pc' = "parse"
    /\ idx' = 1
    /\ coverages' = EmptyMap
    /\ workdir' = EmptyDir
    /\ history' = NoFiles
    /\ historyStatus' = 0
    /\ loaded' = NoFiles
    /\ persisted' = 0
    /\ baseCoverages' = EmptyMap
    /\ messages' = <<>>
    /\ logged' = <<>>
    /\ steps' = <<>>
    /\ failed' = FALSE
    /\ error' = ""
    /\ files' = conf
    /\ UNCHANGED <<remote, comments, clock, call>>

\* fail(message), or an exception caught by action(): core.setFailed and the
\* run is over.
Abort(message) ==
    /\ failed' = TRUE
    /\ error' = message
    /\ pc' = "idle"

\* parseCoverage: the glob matches no file.
ParseNotFound ==
    /\ pc = "parse"
    /\ Abort("Coverage file not found :/")
    /\ UNCHANGED <<files, remote, comments, runs, clock, mode, pullRequest,
                   idx, coverages, workdir, history, historyStatus, loaded,
                   persisted, baseCoverages, messages, logged, steps, call>>

\* A variant of ParseMalformed in which fail() marks the run failed but does
\* not end the process: the loop goes on to the next report.
ParseMalformedContinues ==
    /\ pc = "parse"
    /\ failed' = TRUE
    /\ error' = "Wrong coverage file format"
    /\ IF idx < Len(files)
       THEN /\ idx' = idx + 1
            /\ pc' = pc
       ELSE /\ idx' = idx
            /\ pc' = "idle"
    /\ UNCHANGED <<files, remote, comments, runs, clock, mode, pullRequest,
                   coverages, workdir, history, historyStatus, loaded,
                   persisted, baseCoverages, messages, logged, steps, call>>

\* findNode: coverage, project or metrics is missing.
ParseMalformed ==
    /\ pc = "parse"
    /\ Abort("Wrong coverage file format")
    /\ UNCHANGED <<files, remote, comments, runs, clock, mode, pullRequest,
                   idx, coverages, workdir, history, historyStatus, loaded,
                   persisted, baseCoverages, messages, logged, steps, call>>

\* ParseOk with action() calling update(coverages) whatever ACTION is.
ParseOkAlwaysUpdates ==
    /\ pc = "parse"
    /\ \E metrics \in Reports :
          coverages' = Put(coverages, files[idx].summary, parseCoverage(metrics))
    /\ IF idx < Len(files)
       THEN /\ idx' = idx + 1
            /\ pc' = pc
       ELSE /\ idx' = 1
            /\ pc' = "clone"
    /\ steps' = Append(steps, Step("Parse", files[idx].summary))
    /\ UNCHANGED <<files, remote, comments, runs, clock, mode, pullRequest,
                   workdir, history, historyStatus, loaded, persisted,
                   baseCoverages, messages, logged, failed, error, call>>

\* One iteration of parseCoverages; after the last one action() calls
\* update(coverages) or check(coverages).
ParseOk ==
    /\ pc = "parse"
    /\ \E metrics \in Reports :
          coverages' = Put(coverages, files[idx].summary, parseCoverage(metrics))
    /\ IF idx < Len(files)
       THEN /\ idx' = idx + 1
            /\ pc' = pc
       ELSE /\ idx' = 1
            /\ pc' = IF mode = "update" THEN "clone" ELSE "check"
    /\ steps' = Append(steps, Step("Parse", files[idx].summary))
    /\ UNCHANGED <<files, remote, comments, runs, clock, mode, pullRequest,
                   workdir, history, historyStatus, loaded, persisted,
                   baseCoverages, messages, logged, failed, error, call>>

-----------------------------------------------------------------------------
(* update *)

\* CloneOk with the new orphan branch pushed as soon as it is created.
CloneOkPublishes ==
    /\ pc = "clone"
    /\ workdir' = remote
    /\ remote' = [remote EXCEPT !.branch = TRUE]
    /\ pc' = "fetchHistory"
    /\ steps' = Append(steps, Step("Clone", ""))
    /\ UNCHANGED <<files, comments, runs, clock, mode, pullRequest,
                   idx, coverages, history, historyStatus, loaded, persisted,
                   baseCoverages, messages, logged, failed, error, call>>

\* clone(): the working directory is the coverage branch, or an empty
\* orphan branch when the remote has none.
CloneOk ==
    /\ pc = "clone"
    /\ workdir' = remote
    /\ pc' = "fetchHistory"
    /\ steps' = Append(steps, Step("Clone", ""))
    /\ UNCHANGED <<files, remote, comments, runs, clock, mode, pullRequest,
                   idx, coverages, history, historyStatus, loaded, persisted,
                   baseCoverages, messages, logged, failed, error, call>>

\* A git command of clone() fails: execute rejects.
CloneFail ==
    /\ pc = "clone"
    /\ Abort("git clone failed")
    /\ UNCHANGED <<files, remote, comments, runs, clock, mode, pullRequest,
                   idx, coverages, workdir, history, historyStatus, loaded,
                   persisted, baseCoverages, messages, logged, steps, call>>

\* historyFile.status === 200 ? (await historyFile.json()) : {}
\* The statuses: 200 with the file when the branch has it, 404 when it has
\* not, or any other status (401, 500, ...) whatever the branch holds.
HistoryFromStatus(status) == IF status = 200 THEN remote.ledger ELSE NoFiles

FetchHistory ==
    /\ pc = "fetchHistory"
    /\ \E status \in {200, 404, 500} :
          /\ status = 200 => remote.hasHistory
          /\ status = 404 => ~remote.hasHistory
          /\ history' = HistoryFromStatus(status)
          /\ loaded' = HistoryFromStatus(status)
          /\ historyStatus' = status
    /\ pc' = IF coverages.keys = <<>> THEN "persist" ELSE "update"
    /\ idx' = 1
    /\ steps' = Append(steps, Step("LoadLedger", ""))
    /\ UNCHANGED <<files, remote, comments, runs, clock, mode, pullRequest,
                   coverages, workdir, persisted, baseCoverages, messages,
                   logged, failed, error, call>>

\* fetch rejects (network error).
FetchHistoryFail ==
    /\ pc = "fetchHistory"
    /\ Abort("fetch failed")
    /\ UNCHANGED <<files, remote, comments, runs, clock, mode, pullRequest,
                   idx, coverages, workdir, history, historyStatus, loaded,
                   persisted, baseCoverages, messages, logged, steps, call>>

\* AppendEntry with the sequence created anew on every call.
AppendEntryResets(h, label, entry) == Write(h, label, <<entry>>)

\* history[conf.label].push({time, coverage}), the sequence created first
\* when the label has none.
AppendEntry(h, label, entry) ==
    Write(h, label, Append(IF label \in DOMAIN h THEN h[label] ELSE <<>>, entry))

\* UpdateStep with the ledger entry appended before the files are written.
UpdateStepLedgerFirst ==
    /\ pc = "update"
    /\ LET summaryFile == coverages.keys[idx]
           conf == FindConf(summaryFile, 1)
           snapshot == coverages.at[summaryFile]
       IN /\ workdir' =
                [workdir EXCEPT
                    !.snapshots = Write(@, summaryFile, JsonSnapshot(snapshot)),
                    !.badges = IF conf.badge
                               THEN Write(@, summaryFile,
                                          getBadgeUrl(snapshot.coverage, conf.label))
                               ELSE @]
          /\ history' = AppendEntry(history, conf.label,
                                    [time |-> clock, coverage |-> snapshot.coverage])
    /\ clock' = clock + 1
    /\ IF idx < Len(coverages.keys)
       THEN /\ idx' = idx + 1
            /\ pc' = pc
       ELSE /\ idx' = 1
            /\ pc' = "persist"
    /\ steps' = steps \o <<Step("AppendLedger", coverages.keys[idx]),
                         Step("WriteSnapshot", coverages.keys[idx])>>
                 \o (IF FindConf(coverages.keys[idx], 1).badge
                     THEN <<Step("WriteBadge", coverages.keys[idx])>>
                     ELSE <<>>)
    /\ UNCHANGED <<files, remote, comments, runs, mode, pullRequest,
                   coverages, historyStatus, loaded, persisted, baseCoverages,
                   messages, logged, failed, error, call>>

\* UpdateStep with the history file written inside the loop.
UpdateStepPersists ==
    /\ pc = "update"
    /\ LET summaryFile == coverages.keys[idx]
           conf == FindConf(summaryFile, 1)
           snapshot == coverages.at[summaryFile]
           appended == AppendEntry(history, conf.label,
                                   [time |-> clock, coverage |-> snapshot.coverage])
       IN /\ workdir' =
                [workdir EXCEPT
                    !.snapshots = Write(@, summaryFile, JsonSnapshot(snapshot)),
                    !.badges = IF conf.badge
                               THEN Write(@, summaryFile,
                                          getBadgeUrl(snapshot.coverage, conf.label))
                               ELSE @,
                    !.hasHistory = TRUE,
                    !.ledger = JsonLedger(appended)]
          /\ history' = appended
    /\ persisted' = persisted + 1
    /\ clock' = clock + 1
    /\ IF idx < Len(coverages.keys)
       THEN /\ idx' = idx + 1
            /\ pc' = pc
       ELSE /\ idx' = 1
            /\ pc' = "push"
    /\ steps' = steps \o <<Step("WriteSnapshot", coverages.keys[idx])>>
                 \o (IF FindConf(coverages.keys[idx], 1).badge
                     THEN <<Step("WriteBadge", coverages.keys[idx])>>
                     ELSE <<>>)
                 \o <<Step("AppendLedger", coverages.keys[idx]),
                      Step("PersistLedger", "")>>
    /\ UNCHANGED <<files, remote, comments, runs, mode, pullRequest,
                   coverages, historyStatus, loaded, baseCoverages, messages,
                   logged, failed, error, call>>

\* One iteration of the loop of update: the snapshot file, the badge when
\* one is configured, the ledger entry.
UpdateStep ==
    /\ pc = "update"
    /\ LET summaryFile == coverages.keys[idx]
           conf == FindConf(summaryFile, 1)
           snapshot == coverages.at[summaryFile]
       IN /\ workdir' =
                [workdir EXCEPT
                    !.snapshots = Write(@, summaryFile, JsonSnapshot(snapshot)),
                    !.badges = IF conf.badge
                               THEN Write(@, summaryFile,
                                          getBadgeUrl(snapshot.coverage, conf.label))
                               ELSE @]
          /\ history' = AppendEntry(history, conf.label,
                                    [time |-> clock, coverage |-> snapshot.coverage])
    /\ clock' = clock + 1
    /\ IF idx < Len(coverages.keys)
       THEN /\ idx' = idx + 1
            /\ pc' = pc
       ELSE /\ idx' = 1
            /\ pc' = "persist"
    /\ steps' = steps \o <<Step("WriteSnapshot", coverages.keys[idx])>>
                 \o (IF FindConf(coverages.keys[idx], 1).badge
                     THEN <<Step("WriteBadge", coverages.keys[idx])>>
                     ELSE <<>>)
                 \o <<Step("AppendLedger", coverages.keys[idx])>>
    /\ UNCHANGED <<files, remote, comments, runs, mode, pullRequest,
                   coverages, historyStatus, loaded, persisted, baseCoverages,
                   messages, logged, failed, error, call>>

\* The fetch of the badge rejects: the snapshot file of this iteration is
\* written, nothing else is.
UpdateBadgeFail ==
    /\ pc = "update"
    /\ LET summaryFile == coverages.keys[idx]
           conf == FindConf(summaryFile, 1)
       IN /\ conf.badge
          /\ workdir' =
                [workdir EXCEPT
                    !.snapshots = Write(@, summaryFile,
                                        JsonSnapshot(coverages.at[summaryFile]))]
    /\ Abort("badge fetch failed")
    /\ steps' = Append(steps, Step("WriteSnapshot", coverages.keys[idx]))
    /\ UNCHANGED <<files, remote, comments, runs, clock, mode, pullRequest,
                   idx, coverages, history, historyStatus, loaded, persisted,
                   baseCoverages, messages, logged, call>>

\* fs.writeFileSync(HISTORY_FILENAME, JSON.stringify(history))
Persist ==
    /\ pc = "persist"
    /\ workdir' = [workdir EXCEPT !.hasHistory = TRUE, !.ledger = JsonLedger(history)]
    /\ persisted' = persisted + 1
    /\ pc' = "push"
    /\ steps' = Append(steps, Step("PersistLedger", ""))
    /\ UNCHANGED <<files, remote, comments, runs, clock, mode, pullRequest,
                   idx, coverages, history, historyStatus, loaded,
                   baseCoverages, messages, logged, failed, error, call>>

\* push(): add, commit and push the working directory to the coverage branch.
PushOk ==
    /\ pc = "push"
    /\ remote' = [workdir EXCEPT !.branch = TRUE]
    /\ pc' = "idle"
    /\ steps' = Append(steps, Step("PushStore", ""))
    /\ UNCHANGED <<files, comments, runs, clock, mode, pullRequest, idx,
                   coverages, workdir, history, historyStatus, loaded,
                   persisted, baseCoverages, messages, logged, failed, error,
                   call>>

\* A git command of push() fails: execute rejects.
PushFail ==
    /\ pc = "push"
    /\ Abort("git push failed")
    /\ UNCHANGED <<files, remote, comments, runs, clock, mode, pullRequest,
                   idx, coverages, workdir, history, historyStatus, loaded,
                   persisted, baseCoverages, messages, logged, steps, call>>

-----------------------------------------------------------------------------
(* check *)

Title(label) == [kind |-> "title", label |-> label]

\* '*' + label + '* \n\n' + buildResultMessage(old, new)
Message(title, result) ==
    [kind |-> "message", title |-> title, verdict |-> result.verdict,
     old |-> result.old, new |-> result.new]

\* After the loop over the reports check() goes on to the global comparison.
CheckAdvance ==
    IF idx < Len(coverages.keys)
    THEN /\ idx' = idx + 1
         /\ pc' = pc
    ELSE /\ idx' = 1
         /\ pc' = "global"

\* baseCoverageResult.status === 404: no message, next report.
CheckNoBase ==
    /\ pc = "check"
    /\ coverages.keys[idx] \notin DOMAIN remote.snapshots
    /\ CheckAdvance
    /\ steps' = Append(steps, Step("FetchBaseline", coverages.keys[idx]))
    /\ UNCHANGED <<files, remote, comments, runs, clock, mode, pullRequest,
                   coverages, workdir, history, historyStatus, loaded,
                   persisted, baseCoverages, messages, logged, failed, error,
                   call>>

\* CheckCompare with fail() for core.setFailed: a fail verdict ends the run.
CheckCompareExits ==
    /\ pc = "check"
    /\ coverages.keys[idx] \in DOMAIN remote.snapshots
    /\ LET summaryFile == coverages.keys[idx]
           base == remote.snapshots[summaryFile]
           result == buildResultMessage(base, coverages.at[summaryFile])
       IN /\ baseCoverages' = Put(baseCoverages, summaryFile, base)
          /\ messages' = Append(messages,
                                Message(Title(FindConf(summaryFile, 1).label), result))
          /\ IF result.setFailed
             THEN /\ Abort("Code coverage has been degraded")
                  /\ idx' = idx
             ELSE /\ CheckAdvance
                  /\ UNCHANGED <<failed, error>>
    /\ steps' = steps \o <<Step("FetchBaseline", coverages.keys[idx]),
                         Step("Compare", coverages.keys[idx])>>
    /\ UNCHANGED <<files, remote, comments, runs, clock, mode, pullRequest,
                   coverages, workdir, history, historyStatus, loaded,
                   persisted, logged, call>>

\* The baseline is fetched, decoded and compared with the new snapshot.
CheckCompare ==
    /\ pc = "check"
    /\ coverages.keys[idx] \in DOMAIN remote.snapshots
    /\ LET summaryFile == coverages.keys[idx]
           base == remote.snapshots[summaryFile]
           result == buildResultMessage(base, coverages.at[summaryFile])
       IN /\ baseCoverages' = Put(baseCoverages, summaryFile, base)
          /\ messages' = Append(messages,
                                Message(Title(FindConf(summaryFile, 1).label), result))
          /\ failed' = (failed \/ result.setFailed)
    /\ CheckAdvance
    /\ steps' = steps \o <<Step("FetchBaseline", coverages.keys[idx]),
                         Step("Compare", coverages.keys[idx])>>
    /\ UNCHANGED <<files, remote, comments, runs, clock, mode, pullRequest,
                   coverages, workdir, history, historyStatus, loaded,
                   persisted, logged, error, call>>

\* fetch rejects, or the response is an error page that json() cannot
\* decode: the exception ends check().
CheckFetchFail ==
    /\ pc = "check"
    /\ Abort("fetch failed")
    /\ UNCHANGED <<files, remote, comments, runs, clock, mode, pullRequest,
                   idx, coverages, workdir, history, historyStatus, loaded,
                   persisted, baseCoverages, messages, logged, steps, call>>

\* CheckGlobal with the global comparison made for a single report too.
CheckGlobalAlways ==
    /\ pc = "global"
    /\ IF Len(coverages.keys) > 0
       THEN LET globalBaseCoverage == sumCoverages(baseCoverages)
                globalCoverage == sumCoverages(coverages)
                result == buildResultMessage(globalBaseCoverage, globalCoverage)
            IN /\ messages' = Append(messages, Message(Title("Global"), result))
               /\ failed' = (failed \/ result.setFailed)
       ELSE UNCHANGED <<messages, failed>>
    /\ pc' = "notify"
    /\ steps' = IF Len(coverages.keys) > 0
                THEN Append(steps, Step("CompareGlobal", ""))
                ELSE steps
    /\ UNCHANGED <<files, remote, comments, runs, clock, mode, pullRequest,
                   idx, coverages, workdir, history, historyStatus, loaded,
                   persisted, baseCoverages, logged, error, call>>

\* The global comparison, when more than one report was parsed.
CheckGlobal ==
    /\ pc = "global"
    /\ IF Len(coverages.keys) > 1
       THEN LET globalBaseCoverage == sumCoverages(baseCoverages)
                globalCoverage == sumCoverages(coverages)
                result == buildResultMessage(globalBaseCoverage, globalCoverage)
            IN /\ messages' = Append(messages, Message(Title("Global"), result))
               /\ failed' = (failed \/ result.setFailed)
       ELSE UNCHANGED <<messages, failed>>
    /\ pc' = "notify"
    /\ steps' = IF Len(coverages.keys) > 1
                THEN Append(steps, Step("CompareGlobal", ""))
                ELSE steps
    /\ UNCHANGED <<files, remote, comments, runs, clock, mode, pullRequest,
                   idx, coverages, workdir, history, historyStatus, loaded,
                   persisted, baseCoverages, logged, error, call>>

\* postMessageOnPullRequest outside a pull request: the message is logged.
NotifyNoPullRequest ==
    /\ pc = "notify"
    /\ ~pullRequest
    /\ logged' = Append(logged, Join(messages, 1))
    /\ pc' = "idle"
    /\ steps' = Append(steps, Step("Notify", ""))
    /\ UNCHANGED <<files, remote, comments, runs, clock, mode, pullRequest,
                   idx, coverages, workdir, history, historyStatus, loaded,
                   persisted, baseCoverages, messages, failed, error, call>>

\* postMessageOnPullRequest on a pull request: the managed comment is
\* updated when retrieveCommentIdFromPullRequest finds one, created otherwise.
postMessageOnPullRequest(list, message) ==
    LET body == <<REPORT_MESSAGE_HEADER>> \o message
        commentId == retrieveCommentIdFromPullRequest(list)
    IN IF commentId # 0
       THEN updateComment(list, commentId, body)
       ELSE createComment(list, body)

NotifyPost ==
    /\ pc = "notify"
    /\ pullRequest
    /\ logged' = Append(logged, Join(messages, 1))
    /\ comments' = postMessageOnPullRequest(comments, Join(messages, 1))
    /\ pc' = "idle"
    /\ steps' = Append(steps, Step("Notify", ""))
    /\ UNCHANGED <<files, remote, runs, clock, mode, pullRequest, idx,
                   coverages, workdir, history, historyStatus, loaded,
                   persisted, baseCoverages, messages, failed, error, call>>

\* listComments, updateComment or createComment rejects.
NotifyFail ==
    /\ pc = "notify"
    /\ pullRequest
    /\ logged' = Append(logged, Join(messages, 1))
    /\ Abort("comment request failed")
    /\ UNCHANGED <<files, remote, comments, runs, clock, mode, pullRequest,
                   idx, coverages, workdir, history, historyStatus, loaded,
                   persisted, baseCoverages, messages, steps, call>>

-----------------------------------------------------------------------------

Next ==
    \/ \E m \in {"update", "check"}, pr \in BOOLEAN, conf \in NextConfigs :
           Start(m, pr, conf)
    \/ ParseNotFound
    \/ ParseMalformed
    \/ ParseOk
    \/ CloneOk
    \/ CloneFail
    \/ FetchHistory
    \/ FetchHistoryFail
    \/ UpdateStep
    \/ UpdateBadgeFail
    \/ Persist
    \/ PushOk
    \/ PushFail
    \/ CheckNoBase
    \/ CheckCompare
    \/ CheckFetchFail
    \/ CheckGlobal
    \/ NotifyNoPullRequest
    \/ NotifyPost
    \/ NotifyFail

Spec == Init /\ [][Next]_vars

-----------------------------------------------------------------------------
(* The pure functions on their own: the initial state holds one pending    *)
(* application to an input drawn from a bounded set, and the action of the *)
(* function applies it and records the result in `call`.                   *)

\* Snapshots as parseCoverage returns them, and as a baseline read back from
\* its JSON file.
Snapshots == {parseCoverage(m) : m \in ValidMetrics(MaxTotal)}

JsonSnapshots == {JsonSnapshot(s) : s \in Snapshots}

RECURSIVE SeqsUpTo(_, _)
SeqsUpTo(S, n) ==
    IF n = 0
    THEN {<<>>}
    ELSE SeqsUpTo(S, n - 1)
         \cup {Append(q, x) : q \in {r \in SeqsUpTo(S, n - 1) : Len(r) = n - 1}, x \in S}

\* The object whose values, in Object.values order, are the sequence q.
MapOf(q) == [keys |-> [i \in 1..Len(q) |-> i], at |-> q]

\* Coverage values around the thresholds of the badge colours.
BadgeInputs ==
    {Num(colors[i].threshold * Scale + d) : i \in 1..Len(colors), d \in {-1, 0, 1}}
    \cup {s.coverage : s \in Snapshots}

SumInputs == SeqsUpTo(Snapshots \cup JsonSnapshots, MaxEntries)

Pending(fn, in) == [fn |-> fn, in |-> in, done |-> FALSE]

Done(fn, in, out) == [fn |-> fn, in |-> in, out |-> out, done |-> TRUE]

PendingCalls ==
    {Pending("parseCoverage", m) : m \in ValidMetrics(MaxTotal)}
    \cup {Pending("sumCoverages", q) : q \in SumInputs}
    \cup {Pending("buildResultMessage", [old |-> old, new |-> new]) :
            old \in Snapshots \cup JsonSnapshots, new \in Snapshots}
    \cup {Pending("processBadgeColor", c) : c \in BadgeInputs}

InitPure ==
    /\ files = <<Entry("unit.json", "unit", TRUE)>>
    /\ remote = EmptyDir
    /\ comments = <<>>
    /\ runs = 0
    /\ clock = 1
    /\ mode = "none"
    /\ pullRequest = FALSE
    /\ pc = "idle"
    /\ idx = 1
    /\ coverages = EmptyMap
    /\ workdir = EmptyDir
    /\ history = NoFiles
    /\ historyStatus = 0
    /\ loaded = NoFiles
    /\ persisted = 0
    /\ baseCoverages = EmptyMap
    /\ messages = <<>>
    /\ logged = <<>>
    /\ steps = <<>>
    /\ failed = FALSE
    /\ error = ""
    /\ call \in PendingCalls

IsPending(fn) == call.fn = fn /\ ~call.done

CallParseCoverage ==
    /\ IsPending("parseCoverage")
    /\ call' = Done(call.fn, call.in, parseCoverage(call.in))
    /\ UNCHANGED runVars

CallSumCoverages ==
    /\ IsPending("sumCoverages")
    /\ call' = Done(call.fn, call.in, sumCoverages(MapOf(call.in)))
    /\ UNCHANGED runVars

CallBuildResultMessage ==
    /\ IsPending("buildResultMessage")
    /\ call' = Done(call.fn, call.in, buildResultMessage(call.in.old, call.in.new))
    /\ UNCHANGED runVars

CallProcessBadgeColor ==
    /\ IsPending("processBadgeColor")
    /\ call' = Done(call.fn, call.in, processBadgeColor(call.in))
    /\ UNCHANGED runVars

NextPure ==
    \/ CallParseCoverage
    \/ CallSumCoverages
    \/ CallBuildResultMessage
    \/ CallProcessBadgeColor

SpecPure == InitPure /\ [][NextPure]_vars

-----------------------------------------------------------------------------
(* Claims *)

Applied(fn) == call.fn = fn /\ call.done

\* A coverage value that is a number, and the order of two such numbers.
IsNumber(c) == c.k = "num"

Lower(a, b) == IsNumber(a) /\ IsNumber(b) /\ a.v < b.v

\* C1: buildResultMessage gives the failure verdict exactly when the new
\* coverage is lower than the old one; equal coverage passes.
C1_FailIffLower ==
    Applied("buildResultMessage") =>
        /\ call.out.verdict \in {"pass", "fail"}
        /\ call.out.verdict = "fail" <=> Lower(call.in.new.coverage, call.in.old.coverage)
        /\ call.out.setFailed <=> Lower(call.in.new.coverage, call.in.old.coverage)

\* C1 witness: a comparison of two snapshots of equal coverage passed.
C1_Witness ==
    /\ Applied("buildResultMessage")
    /\ IsNumber(call.in.new.coverage)
    /\ call.in.new.coverage = call.in.old.coverage
    /\ call.in.new.total # call.in.old.total
    /\ call.out.verdict = "pass"

\* A check run is over.
CheckEnded == pc = "idle" /\ mode = "check"

AnyFail == \E i \in 1..Len(messages) : messages[i].verdict = "fail"

\* The comparisons check() has to make: one per report that has a baseline,
\* and the global one when there are several reports.
ExpectedComparisons ==
    Cardinality({k \in Range(coverages.keys) : k \in DOMAIN remote.snapshots})
    + (IF Len(coverages.keys) > 1 THEN 1 ELSE 0)

ManagedBodies == {comments[i].body : i \in {j \in 1..Len(comments) : IsManaged(comments[j])}}

CombinedBody == <<REPORT_MESSAGE_HEADER>> \o Join(messages, 1)

\* The failures that end a check run after a comparison was made.
LaterFailures == {"fetch failed", "comment request failed"}

UpdateEnded == pc = "idle" /\ mode = "update"

\* C3 as stated: a 404 on the history is an empty ledger and no error; any
\* other status than 200 and 404 ends the run failed, with no ledger
\* written or pushed.
C3_HistoryFetchFailureIsFatal ==
    /\ (mode = "update" /\ historyStatus = 404) =>
          /\ loaded = NoFiles
          /\ (pc \in {"update", "persist", "push"} => ~failed)
    /\ (UpdateEnded /\ historyStatus \notin {0, 200, 404}) =>
          /\ failed
          /\ persisted = 0
          /\ ~workdir.hasHistory

IsPrefix(p, q) == Len(p) <= Len(q) /\ \A i \in 1..Len(p) : p[i] = q[i]

\* C4 as stated: every push of an update run leaves, for every label, the
\* ledger of the previous push as a prefix of the new one.
C4_LedgerAppendOnly ==
    [][\A l \in DOMAIN remote.ledger :
          /\ l \in DOMAIN remote'.ledger
          /\ IsPrefix(remote.ledger[l], remote'.ledger[l])]_vars

IsSnapshot(out) == DOMAIN out = {"total", "covered", "coverage"}

\* C5 as stated: parseCoverage returns no snapshot for a report whose
\* metrics have elements = 0.
C5_ZeroTotalIsMalformed ==
    (Applied("parseCoverage") /\ call.in.elements = 0) => ~IsSnapshot(call.out)

RECURSIVE SeqSum(_, _)
SeqSum(q, field) ==
    IF q = <<>>
    THEN 0
    ELSE (IF field = "total" THEN Head(q).total ELSE Head(q).covered)
         + SeqSum(Tail(q), field)

Abs(x) == IF x < 0 THEN -x ELSE x

\* c is 100 * covered / total rounded to 3 decimals: the thousandths nearest
\* to the quotient, or NaN for 0 / 0.
IsPercentageOf(c, covered, total) ==
    IF total = 0
    THEN c = NaN
    ELSE /\ IsNumber(c)
         /\ 2 * Abs(c.v * total - 100 * Scale * covered) <= total

\* C6: sumCoverages of a non-empty map has the sum of the totals, the sum of
\* the covered counts, and the percentage of these two sums.
C6_SumOfTotalsAndCovered ==
    (Applied("sumCoverages") /\ Len(call.in) > 0) =>
        /\ call.out.total = SeqSum(call.in, "total")
        /\ call.out.covered = SeqSum(call.in, "covered")
        /\ IsPercentageOf(call.out.coverage,
                          SeqSum(call.in, "covered"), SeqSum(call.in, "total"))

\* C6 witness: 1/1, 0/2 and 1/3 sum to 2/6, which is 33.333 percent and not
\* the average 44.444 of 100, 0 and 33.333.
C6_Witness ==
    /\ Applied("sumCoverages")
    /\ call.in = << parseCoverage([elements |-> 1, coveredelements |-> 1]),
                    parseCoverage([elements |-> 2, coveredelements |-> 0]),
                    parseCoverage([elements |-> 3, coveredelements |-> 1]) >>
    /\ call.out = [total |-> 6, covered |-> 2, coverage |-> Num(33333)]

LoadedLen(l) == IF l \in DOMAIN loaded THEN Len(loaded[l]) ELSE 0

\* C7 as stated: in an update run no label of the ledger gets more than one
\* new entry.
C7_AtMostOneAppendPerLabel ==
    mode = "update" =>
        \A l \in DOMAIN history : Len(history[l]) <= LoadedLen(l) + 1

\* The labels of the reports an update run has processed so far.
ProcessedLabels ==
    {FindConf(coverages.keys[i], 1).label :
        i \in 1..(IF pc = "update" THEN idx - 1 ELSE Len(coverages.keys))}

\* C8: the history file is written at most once in an update run, when no
\* append is left to make: from then on it holds the whole in-memory ledger,
\* with a new entry for every label of the run, and a run that reaches the
\* push has written it exactly once.
C8_PersistOnceAfterAppends ==
    mode = "update" =>
        /\ persisted <= 1
        /\ persisted = 1 =>
              /\ pc \in {"push", "idle"}
              /\ workdir.hasHistory
              /\ DOMAIN workdir.ledger = DOMAIN history
              /\ \A l \in DOMAIN history : Len(workdir.ledger[l]) = Len(history[l])
              /\ \A l \in ProcessedLabels :
                    /\ l \in DOMAIN workdir.ledger
                    /\ Len(workdir.ledger[l]) > LoadedLen(l)
        /\ pc = "push" => persisted = 1
        /\ (UpdateEnded /\ ~failed) => persisted = 1

\* C8 witness: a run of two reports with two labels has written the ledger,
\* which holds both labels, and is about to push.
C8_Witness ==
    /\ mode = "update"
    /\ pc = "push"
    /\ persisted = 1
    /\ Cardinality(ProcessedLabels) = 2
    /\ ProcessedLabels \subseteq DOMAIN workdir.ledger

\* C9: a step that changes the in-memory ledger changes one label only: its
\* sequence is the old one (empty when the label was absent) with one entry
\* added at the end, the measurement of the report being processed.
C9_AppendIsAdditive ==
    [][(mode = "update" /\ pc = "update" /\ history' # history) =>
          \E l \in DOMAIN history' :
              LET old == IF l \in DOMAIN history THEN history[l] ELSE <<>>
              IN /\ DOMAIN history' = DOMAIN history \cup {l}
                 /\ \A o \in DOMAIN history \ {l} : history'[o] = history[o]
                 /\ Len(history'[l]) = Len(old) + 1
                 /\ IsPrefix(old, history'[l])
                 /\ history'[l][Len(old) + 1] =
                        [time |-> clock,
                         coverage |-> coverages.at[coverages.keys[idx]].coverage]
                 /\ l = FindConf(coverages.keys[idx], 1).label]_vars

\* C9 witness: a label that was loaded with one entry has two, the loaded
\* one first.
C9_Witness ==
    /\ mode = "update"
    /\ \E l \in DOMAIN loaded :
          /\ Len(loaded[l]) = 1
          /\ Len(history[l]) = 2
          /\ history[l][1] = loaded[l][1]
          /\ history[l][2].time > loaded[l][1].time

ManagedCount == Cardinality({i \in 1..Len(comments) : IsManaged(comments[i])})

\* C10 as stated, for the pull requests on which a check run has completed
\* its notification: there is exactly one managed comment, and never more
\* than one.
C10_ExactlyOneManagedComment ==
    /\ ManagedCount <= 1
    /\ (CheckEnded /\ pullRequest /\ error = "") => ManagedCount = 1

-----------------------------------------------------------------------------
(* Order and scope of the steps of a run *)

ParseErrors == {"Coverage file not found :/", "Wrong coverage file format"}

StepOps == {steps[i].op : i \in 1..Len(steps)}

\* C11: a parse failure on any report ends the whole run: the run is marked
\* failed, the reports before it are the only ones parsed and no later one
\* is, there is no clone, baseline fetch, comparison, store write, push or
\* notification, the remote branch and the comments are as they were, and
\* the only thing that follows is the start of another run.
C11_ParseFailureAborts ==
    /\ [](error \in ParseErrors =>
            /\ failed
            /\ pc = "idle"
            /\ StepOps \subseteq {"Parse"}
            /\ Len(steps) = idx - 1
            /\ Len(coverages.keys) <= idx - 1
            /\ workdir = EmptyDir
            /\ historyStatus = 0
            /\ history = NoFiles
            /\ persisted = 0
            /\ baseCoverages = EmptyMap
            /\ messages = <<>>
            /\ logged = <<>>)
    /\ [][error' \in ParseErrors =>
             \/ /\ remote' = remote
                /\ comments' = comments
                /\ UNCHANGED <<runs, steps, coverages>>
             \/ error \in ParseErrors /\ runs' = runs + 1]_vars
    /\ [][(error \in ParseErrors) => (runs' = runs + 1)]_vars

C11_Witness ==
    /\ error = "Wrong coverage file format"
    /\ failed
    /\ pc = "idle"
    /\ Len(files) = 2
    /\ idx = 2
    /\ Len(steps) = 1

\* The reports of a check run whose baseline was absent, and the new
\* snapshots of the reports that have one.
MissingBase == {k \in Range(coverages.keys) : k \notin Range(baseCoverages.keys)}

WithBase ==
    [keys |-> baseCoverages.keys,
     at   |-> [k \in Range(baseCoverages.keys) |-> coverages.at[k]]]

ReportFail ==
    \E i \in 1..Len(messages) :
        messages[i].title # Title("Global") /\ messages[i].verdict = "fail"

\* C12 as stated: in a completed check run a report without baseline gets no
\* comparison, and the run is marked failed only for what the reports with
\* a baseline show: one of them degraded, or their sum did.
C12_AbsentBaselineIsNoError ==
    (CheckEnded /\ error = "" /\ MissingBase # {}) =>
        /\ \A k \in MissingBase : Step("Compare", k) \notin Range(steps)
        /\ failed =>
              \/ ReportFail
              \/ JsLess(sumCoverages(WithBase).coverage,
                        sumCoverages(baseCoverages).coverage)

GlobalCompared == mode = "check" /\ Step("CompareGlobal", "") \in Range(steps)

\* C13 as stated: when a check run has made the global comparison, neither
\* map handed to sumCoverages was empty: the baselines were not, and the
\* new snapshots were not.
C13_SumCoveragesNeverOnEmptyMap ==
    GlobalCompared => (baseCoverages.keys # <<>> /\ coverages.keys # <<>>)

\* C14: for a report with total > 0 and covered <= total, parseCoverage
\* returns the total and the covered count of the report and, as coverage,
\* the number 100 * covered / total rounded to 3 decimals.
C14_CoverageIsRoundedPercentage ==
    (/\ Applied("parseCoverage")
     /\ call.in.elements > 0
     /\ call.in.coveredelements <= call.in.elements) =>
        /\ IsSnapshot(call.out)
        /\ call.out.total = call.in.elements
        /\ call.out.covered = call.in.coveredelements
        /\ IsNumber(call.out.coverage)
        /\ IsPercentageOf(call.out.coverage, call.in.coveredelements,
                          call.in.elements)

\* C14 witness: 2 of 3 is 66.667 percent, rounded up from 66.6666...
C14_Witness ==
    /\ Applied("parseCoverage")
    /\ call.in = [elements |-> 3, coveredelements |-> 2]
    /\ call.out = [total |-> 3, covered |-> 2, coverage |-> Num(66667)]

\* C15: for a coverage that is a number, processBadgeColor returns red below
\* 50, orange from 50 and below 75, yellow from 75 and below 95, and green
\* from 95.
C15_BadgeColorThresholds ==
    (Applied("processBadgeColor") /\ IsNumber(call.in)) =>
        /\ call.in.v < 50 * Scale => call.out = "red"
        /\ (50 * Scale <= call.in.v /\ call.in.v < 75 * Scale) =>
              call.out = "orange"
        /\ (75 * Scale <= call.in.v /\ call.in.v < 95 * Scale) =>
              call.out = "yellow"
        /\ 95 * Scale <= call.in.v => call.out = "green"

\* C15 witness: each threshold belongs to the colour above it.
C15_Witness ==
    /\ Applied("processBadgeColor")
    /\ call.in = Num(75 * Scale)
    /\ call.out = "yellow"

\* The place of a step in the order C16 states, and in the order of update().
StatedRank(op) ==
    CASE op = "Parse" -> 1
      [] op = "Clone" -> 2
      [] op = "WriteSnapshot" -> 3
      [] op = "WriteBadge" -> 4
      [] op = "LoadLedger" -> 5
      [] op = "AppendLedger" -> 6
      [] op = "PersistLedger" -> 7
      [] op = "PushStore" -> 8

CodeRank(op) ==
    CASE op = "Parse" -> 1
      [] op = "Clone" -> 2
      [] op = "LoadLedger" -> 3
      [] op \in {"WriteSnapshot", "WriteBadge", "AppendLedger"} -> 4
      [] op = "PersistLedger" -> 5
      [] op = "PushStore" -> 6

\* C16 as stated: the steps of an update run follow the order ParseAll,
\* Clone, WriteSnapshots, WriteBadges, LoadLedger, AppendLedger,
\* PersistLedger, PushStore, so every snapshot and badge is written before
\* the ledger is loaded.
C16_Original ==
    mode = "update" =>
        \A i, j \in 1..Len(steps) :
            i < j => StatedRank(steps[i].op) <= StatedRank(steps[j].op)

\* The steps of the report `key`, in the order they were made.
StepsOf(key) == SelectSeq(steps, LAMBDA st : CodeRank(st.op) = 4 /\ st.key = key)

\* What update() does for one report, in order.
ReportSteps(conf) ==
    <<Step("WriteSnapshot", conf.summary)>>
    \o (IF conf.badge THEN <<Step("WriteBadge", conf.summary)>> ELSE <<>>)
    \o <<Step("AppendLedger", conf.summary)>>

\* C16 amended: an update run parses every report, clones the store branch
\* and loads the ledger once, then takes the reports in turn and for each
\* writes its snapshot, its badge when one is configured, and appends its
\* ledger entry, then persists the ledger once and pushes; the ledger is
\* loaded before any snapshot or badge is written, and the push is the last
\* step.
C16_UpdateOrder ==
    mode = "update" =>
        /\ \A i \in 1..(Len(steps) - 1) :
              LET a == steps[i]
                  b == steps[i + 1]
              IN /\ CodeRank(a.op) <= CodeRank(b.op)
                 /\ CodeRank(a.op) = CodeRank(b.op) => CodeRank(a.op) \in {1, 4}
                 /\ (CodeRank(a.op) = 4 /\ CodeRank(b.op) = 4) =>
                       IF a.key = b.key
                       THEN <<a.op, b.op>> \in {<<"WriteSnapshot", "WriteBadge">>,
                                                <<"WriteSnapshot", "AppendLedger">>,
                                                <<"WriteBadge", "AppendLedger">>}
                       ELSE a.op = "AppendLedger" /\ b.op = "WriteSnapshot"
        /\ \A k \in Range(coverages.keys) :
              \/ StepsOf(k) = <<>>
              \/ StepsOf(k) = <<Step("WriteSnapshot", k)>> /\ failed
              \/ StepsOf(k) = ReportSteps(FindConf(k, 1))
        /\ \A i \in 1..Len(steps) :
              steps[i].op = "PushStore" => (i = Len(steps) /\ pc = "idle")
        /\ (UpdateEnded /\ error = "") =>
              /\ steps[Len(steps)] = Step("PushStore", "")
              /\ {"Clone", "LoadLedger", "PersistLedger"} \subseteq StepOps
              /\ \A k \in Range(coverages.keys) :
                    StepsOf(k) = ReportSteps(FindConf(k, 1))

\* C16 witness: a completed update run of two reports.
C16_Witness ==
    /\ UpdateEnded
    /\ error = ""
    /\ Len(coverages.keys) = 2
    /\ steps[Len(steps)] = Step("PushStore", "")
    /\ \E i \in 1..Len(steps) :
          /\ steps[i].op = "LoadLedger"
          /\ steps[i + 1].op = "WriteSnapshot"

\* The storage names (summary files) of the configured reports are unique.
UniqueSummaries ==
    \A i, j \in 1..Len(files) : files[i].summary = files[j].summary => i = j

\* The titles of the messages of a check run: the label of every configured
\* report that has a baseline, in the order of the configuration, then
\* Global when more than one report is configured.
RECURSIVE ReportTitles(_)
ReportTitles(i) ==
    IF i > Len(files)
    THEN <<>>
    ELSE (IF files[i].summary \in DOMAIN remote.snapshots
          THEN <<Title(files[i].label)>>
          ELSE <<>>)
         \o ReportTitles(i + 1)

ExpectedTitles ==
    ReportTitles(1) \o (IF Len(files) > 1 THEN <<Title("Global")>> ELSE <<>>)

\* body is the messages with the titles `titles`, in that order, with a
\* divider between two of them.
IsJoined(body, titles) ==
    /\ Len(body) = (IF titles = <<>> THEN 0 ELSE 2 * Len(titles) - 1)
    /\ \A k \in 1..Len(titles) :
          /\ body[2 * k - 1].kind = "message"
          /\ body[2 * k - 1].title = titles[k]
    /\ \A k \in 1..(Len(titles) - 1) : body[2 * k] = Divider

\* C17: in a check run of reports with unique storage names, the global
\* comparison is made exactly when more than one report is configured, and
\* the one message handed to the notifier, which is the body of the managed
\* comment once posted, is the per-report messages in report order, then
\* the global message last, joined by the divider.
C17_GlobalLastInReportOrder ==
    (mode = "check" /\ UniqueSummaries) =>
        /\ (pc = "notify" \/ logged # <<>>) =>
              (GlobalCompared <=> Len(files) > 1)
        /\ logged # <<>> =>
              /\ Len(logged) = 1
              /\ IsJoined(logged[1], ExpectedTitles)
        /\ (CheckEnded /\ pullRequest /\ error = "") =>
              <<REPORT_MESSAGE_HEADER>> \o logged[1] \in ManagedBodies

\* C17 witness: two reports with a baseline each: the posted message is the
\* two report messages and the global one, with two dividers.
C17_Witness ==
    /\ CheckEnded
    /\ pullRequest
    /\ error = ""
    /\ UniqueSummaries
    /\ Len(logged) = 1
    /\ Len(logged[1]) = 5
    /\ logged[1][1].title = Title(files[1].label)
    /\ logged[1][2] = Divider
    /\ logged[1][3].title = Title(files[2].label)
    /\ logged[1][5].title = Title("Global")
    /\ <<REPORT_MESSAGE_HEADER>> \o logged[1] \in ManagedBodies

\* C18 as stated: when a check run has made the global comparison, the
\* baselines summed for the global baseline are those of exactly the reports
\* summed for the new global snapshot.
C18_GlobalSidesOverSameLabels ==
    GlobalCompared => Range(baseCoverages.keys) = Range(coverages.keys)

\* The store `dir` holds what this update run produced: the snapshot of
\* every report, the badge of every report that has one configured, and
\* the ledger of the run.
Published(dir) ==
    /\ dir.branch
    /\ \A k \in Range(coverages.keys) :
          /\ k \in DOMAIN dir.snapshots
          /\ dir.snapshots[k] = JsonSnapshot(coverages.at[k])
          /\ FindConf(k, 1).badge =>
                /\ k \in DOMAIN dir.badges
                /\ dir.badges[k] = getBadgeUrl(coverages.at[k].coverage,
                                               FindConf(k, 1).label)
    /\ dir.hasHistory
    /\ dir.ledger = JsonLedger(history)

\* C19: the remote branch changes only in the push that ends an update run
\* in which no step has failed, and that one step publishes the snapshots,
\* the badges and the whole ledger of the run together; a run that has
\* failed leaves the remote branch as it was.
C19_RemoteChangesOnlyAtPush ==
    [][remote' # remote =>
          /\ mode = "update"
          /\ pc = "push"
          /\ pc' = "idle"
          /\ ~failed /\ ~failed'
          /\ error' = ""
          /\ steps' = Append(steps, Step("PushStore", ""))
          /\ Len(coverages.keys) >= 1
          /\ Published(remote')]_vars

\* C19 witness: an update run of two reports, one with a badge, has pushed:
\* the remote branch holds both snapshots, the badge and the ledger.
C19_Witness ==
    /\ UpdateEnded
    /\ ~failed
    /\ steps # <<>>
    /\ steps[Len(steps)] = Step("PushStore", "")
    /\ Len(coverages.keys) = 2
    /\ DOMAIN remote.badges # {}
    /\ DOMAIN remote.ledger # {}
    /\ Published(remote)

StoreOps ==
    {"Clone", "LoadLedger", "WriteSnapshot", "WriteBadge", "AppendLedger",
     "PersistLedger", "PushStore"}

\* C20: a check run makes no clone, writes no snapshot, badge or ledger and
\* does not push, whatever its verdicts and errors: from its start to its
\* end, and until the next run starts, the remote branch with its baselines
\* and its ledger is what it was.
C20_CheckNeverModifiesStore ==
    /\ [](mode = "check" =>
            /\ StepOps \cap StoreOps = {}
            /\ workdir = EmptyDir
            /\ history = NoFiles
            /\ persisted = 0
            /\ pc \notin {"clone", "fetchHistory", "update", "persist", "push"})
    /\ [][(mode' = "check") => (remote' = remote)]_vars

\* C20 witness: a check run against a store that holds baselines and a
\* ledger has ended with a fail verdict.
C20_Witness ==
    /\ CheckEnded
    /\ failed
    /\ AnyFail
    /\ Step("Notify", "") \in Range(steps)
    /\ remote.branch
    /\ remote.hasHistory
    /\ DOMAIN remote.snapshots # {}
    /\ workdir = EmptyDir

====
